---------------------------- MODULE Spec2Model ----------------------------
(***************************************************************************)
(* Keyframe transition engine of ruensh (src/ruensh/src/svg/transitions.rs *)
(* and the easing library of src/ruensh/src/svg/animations.rs).            *)
(*                                                                         *)
(* Time is a count of clock ticks; an Instant is the tick at which it was  *)
(* read and a Duration a number of ticks.  An f32 is an exact rational     *)
(* <<n, d>> with d > 0, kept in lowest terms, so progress = elapsed /      *)
(* duration and the easing polynomials are computed without rounding; the  *)
(* non-finite values are <<0, 0>> (NaN), <<1, 0>> and <<-1, 0>> (+/- inf). *)
(* Option<T> is a record: None, or Some(v) with the value in field v.      *)
(***************************************************************************)
EXTENDS Integers, Sequences, FiniteSets, TLC

VARIABLES
    now,          \* the monotonic clock (Instant::now())
    preset,       \* which constructor built the Transition under test
    t,            \* the Transition under test
    op,           \* the operation that produced this state
    pre,          \* the Transition as it was before that operation
    ret,          \* what that operation returned, when it was an update()
    obs,          \* what that update() observed and looked up
    h,            \* history of the Transition under test, kept beside the code's state
    transitions,  \* TransitionManager.transitions
    mh,           \* the manager's last operation, its arguments and the registry before it
    animation,    \* an AnimationState
    modal         \* a Modal

vars == <<now, preset, t, op, pre, ret, obs, h, transitions, mh, animation, modal>>

(***************************************************************************)
(* Bounds of the model.                                                    *)
(***************************************************************************)
MaxTime == 7
MaxDuration == 2
MaxLoops == 3
MaxManagerTime == 2
MaxEntries == 2

Durations == 2..MaxDuration
LoopBudgets == 0..MaxLoops

(***************************************************************************)
(* Option<T>                                                               *)
(***************************************************************************)
None == [some |-> FALSE]
Some(x) == [some |-> TRUE, v |-> x]

(***************************************************************************)
(* The two constructors outside the transition engine: AnimationState::new *)
(* (animations.rs) and Modal::new (components/modal.rs).  A Modal's title, *)
(* content, labels and theme are never read by the operations below, and   *)
(* last_mouse_x / last_mouse_y are written by handle_event only.           *)
(***************************************************************************)
AnimationNew(duration_ms, easing) ==
    [start_time_ms |-> 0, duration_ms |-> duration_ms, easing |-> easing]

ModalNew ==
    [focused_button |-> "Primary", modal_state |-> "Hidden", animation_frame |-> 0]

\* the widgets of a state in which only transitions are exercised
Widgets == animation = AnimationNew(1, "Linear") /\ modal = ModalNew

(***************************************************************************)
(* f32 as exact rationals.                                                 *)
(***************************************************************************)
Abs(x) == IF x < 0 THEN -x ELSE x

RECURSIVE GCD(_, _)
GCD(a, b) == IF b = 0 THEN a ELSE GCD(b, a % b)

Sign(x) == IF x < 0 THEN -1 ELSE IF x > 0 THEN 1 ELSE 0

Rat(n, d) ==
    LET s == IF d < 0 THEN -1 ELSE 1
        g == GCD(Abs(n), Abs(d))
    IN  IF d = 0 THEN <<Sign(n), 0>>
        ELSE IF n = 0 THEN <<0, 1>>
        ELSE <<(s * n) \div g, (s * d) \div g>>

NaN == Rat(0, 0)
IsNaN(x) == x = NaN
IsFinite(x) == x[2] # 0

Zero == Rat(0, 1)
One == Rat(1, 1)
Half == Rat(1, 2)

\* every comparison with NaN is false
RLe(a, b) == ~IsNaN(a) /\ ~IsNaN(b) /\ a[1] * b[2] <= b[1] * a[2]
RLt(a, b) == ~IsNaN(a) /\ ~IsNaN(b) /\ a[1] * b[2] < b[1] * a[2]
RAdd(a, b) == Rat(a[1] * b[2] + b[1] * a[2], a[2] * b[2])
RSub(a, b) == Rat(a[1] * b[2] - b[1] * a[2], a[2] * b[2])
RMul(a, b) == Rat(a[1] * b[1], a[2] * b[2])
RDiv(a, b) == Rat(a[1] * b[2], a[2] * b[1])

\* f32::clamp(0.0, 1.0)
Clamp01(x) == IF RLt(x, Zero) THEN Zero ELSE IF RLt(One, x) THEN One ELSE x

\* `as` cast of a float to an integer type: truncation toward zero, saturating
\* (an infinity goes beyond every integer type's range), NaN to 0.
Trunc(x) ==
    IF x[2] = 0 THEN x[1] * 65536
    ELSE IF x[1] >= 0 THEN x[1] \div x[2] ELSE -((-x[1]) \div x[2])
Saturate(i, lo, hi) == IF i < lo THEN lo ELSE IF i > hi THEN hi ELSE i

(***************************************************************************)
(* Easing::apply (animations.rs).                                          *)
(***************************************************************************)
Easings == {"Linear", "EaseIn", "EaseOut", "EaseInOut", "Bounce", "Elastic"}

\* -(2^(10(u-1)) * sin((u-1-s)*2*pi/p)), p = 0.3, s = p/4, in thousandths at
\* u = k/20; between grid points the value at the grid point below is taken.
ElasticTable ==
    <<1, 2, 1, -2, -6, -4, 6, 16, 11, -16, -44, -31, 44, 125, 88, -125, -354, -250, 354>>

ElasticInterior(u) ==
    IF IsNaN(u) THEN NaN
    ELSE LET k == (u[1] * 20) \div u[2]
         IN  IF k = 0 THEN Zero ELSE Rat(ElasticTable[k], 1000)

BounceK == Rat(121, 16)

\* a bounce without its fourth branch: the third runs to the end
BounceThreeBranches(u) ==
    IF RLt(u, Rat(4, 11)) THEN RMul(BounceK, RMul(u, u))
    ELSE IF RLt(u, Rat(8, 11))
         THEN LET w == RSub(u, Rat(6, 11))
              IN  RAdd(RMul(BounceK, RMul(w, w)), Rat(3, 4))
    ELSE LET w == RSub(u, Rat(9, 11))
         IN  RAdd(RMul(BounceK, RMul(w, w)), Rat(15, 16))

Bounce(u) ==
    IF RLt(u, Rat(4, 11)) THEN RMul(BounceK, RMul(u, u))
    ELSE IF RLt(u, Rat(8, 11))
         THEN LET w == RSub(u, Rat(6, 11))
              IN  RAdd(RMul(BounceK, RMul(w, w)), Rat(3, 4))
    ELSE IF RLt(u, Rat(10, 11))
         THEN LET w == RSub(u, Rat(9, 11))
              IN  RAdd(RMul(BounceK, RMul(w, w)), Rat(15, 16))
    ELSE LET w == RSub(u, Rat(21, 22))
         IN  RAdd(RMul(BounceK, RMul(w, w)), Rat(63, 64))

EaseIn(u) == RMul(u, u)

EaseOut(u) == RMul(u, RSub(Rat(2, 1), u))

EaseInOut(u) ==
    IF RLt(u, Half)
    THEN RMul(Rat(2, 1), RMul(u, u))
    ELSE RAdd(Rat(-1, 1), RMul(RSub(Rat(4, 1), RMul(Rat(2, 1), u)), u))

Elastic(u) == IF u = Zero \/ u = One THEN u ELSE ElasticInterior(u)

\* apply() that clamps its input from above only (the elastic table is
\* defined on [0,1] alone)
ApplyClampsAbove(easing, x) ==
    LET u == IF RLt(One, x) THEN One ELSE x
    IN  CASE easing = "Linear" -> u
          [] easing = "EaseIn" -> EaseIn(u)
          [] easing = "EaseOut" -> EaseOut(u)
          [] easing = "EaseInOut" -> EaseInOut(u)
          [] easing = "Bounce" -> Bounce(u)
          [] easing = "Elastic" -> Elastic(Clamp01(u))

Apply(easing, x) ==
    LET u == Clamp01(x)
    IN  CASE easing = "Linear" -> u
          [] easing = "EaseIn" -> EaseIn(u)
          [] easing = "EaseOut" -> EaseOut(u)
          [] easing = "EaseInOut" -> EaseInOut(u)
          [] easing = "Bounce" -> Bounce(u)
          [] easing = "Elastic" -> Elastic(u)

(***************************************************************************)
(* Animated values and the Interpolate trait.                              *)
(***************************************************************************)
F32(n, d) == [ty |-> "f32", q |-> Rat(n, d)]
I16(i) == [ty |-> "i16", i |-> i]
Rgb(r, g, b) == [ty |-> "rgb", r |-> r, g |-> g, b |-> b]
Named(c) == [ty |-> "named", c |-> c]

LerpInt(a, b, x, lo, hi) ==
    Saturate(Trunc(RAdd(Rat(a, 1), RMul(Rat(b - a, 1), x))), lo, hi)

\* a channel blend that rounds to the nearest integer
LerpU8Rounds(a, b, x) ==
    Saturate(Trunc(RAdd(RAdd(Rat(a, 1), RMul(Rat(b - a, 1), x)), Half)), 0, 255)

LerpU8(a, b, x) == LerpInt(a, b, x, 0, 255)

\* a lerp whose fallback jumps to the other value once t reaches 1
LerpJumpsAtEnd(a, b, x) ==
    CASE a.ty = "f32" -> [ty |-> "f32", q |-> RAdd(a.q, RMul(RSub(b.q, a.q), x))]
      [] a.ty = "i16" -> I16(LerpInt(a.i, b.i, x, -32768, 32767))
      [] a.ty = "rgb" /\ b.ty = "rgb" ->
            Rgb(LerpU8(a.r, b.r, x), LerpU8(a.g, b.g, x), LerpU8(a.b, b.b, x))
      [] OTHER -> IF RLe(One, x) THEN b ELSE a

Lerp(a, b, x) ==
    CASE a.ty = "f32" -> [ty |-> "f32", q |-> RAdd(a.q, RMul(RSub(b.q, a.q), x))]
      [] a.ty = "i16" -> I16(LerpInt(a.i, b.i, x, -32768, 32767))
      [] a.ty = "rgb" /\ b.ty = "rgb" ->
            Rgb(LerpU8(a.r, b.r, x), LerpU8(a.g, b.g, x), LerpU8(a.b, b.b, x))
      [] OTHER -> a

(***************************************************************************)
(* Keyframe                                                                *)
(***************************************************************************)
KeyframeNew(offset, value) ==
    [offset |-> Clamp01(offset), value |-> value, easing |-> "EaseInOut"]

WithEasing(kf, easing) == [kf EXCEPT !.easing = easing]

(***************************************************************************)
(* Transition::interpolate_at.  The scan keeps the loop's 0-based indices. *)
(***************************************************************************)
\* a scan with strict comparisons: a keyframe at exactly p is neither a
\* segment start nor a segment end
RECURSIVE ScanStrict(_, _, _, _, _)
ScanStrict(kfs, p, i, start_idx, end_idx) ==
    IF i >= Len(kfs) THEN <<start_idx, end_idx>>
    ELSE LET kf == kfs[i + 1]
             s == IF RLt(kf.offset, p) THEN i ELSE start_idx
         IN  IF RLt(p, kf.offset) THEN <<s, i>>
             ELSE ScanStrict(kfs, p, i + 1, s, end_idx)

RECURSIVE Scan(_, _, _, _, _)
Scan(kfs, p, i, start_idx, end_idx) ==
    IF i >= Len(kfs) THEN <<start_idx, end_idx>>
    ELSE LET kf == kfs[i + 1]
             s == IF RLe(kf.offset, p) THEN i ELSE start_idx
         IN  IF RLe(p, kf.offset) THEN <<s, i>>
             ELSE Scan(kfs, p, i + 1, s, end_idx)

Panic == [ty |-> "panic"]

\* a lookup that takes the local progress of a segment of no positive width
\* as 1.0
InterpolateAtZeroWidthEnds(kfs, p) ==
    IF Len(kfs) = 0 THEN Panic
    ELSE IF Len(kfs) = 1 THEN kfs[1].value
    ELSE LET idx == Scan(kfs, p, 0, 0, 1)
             start_kf == kfs[idx[1] + 1]
             end_kf == kfs[idx[2] + 1]
             segment_duration == RSub(end_kf.offset, start_kf.offset)
             local_progress ==
                 IF RLt(Zero, segment_duration)
                 THEN RDiv(RSub(p, start_kf.offset), segment_duration)
                 ELSE One
             eased_progress == Apply(start_kf.easing, local_progress)
         IN  IF idx[1] = idx[2] THEN start_kf.value
             ELSE Lerp(start_kf.value, end_kf.value, eased_progress)

\* a lookup that eases a segment with the easing of its end keyframe
InterpolateAtEndEasing(kfs, p) ==
    IF Len(kfs) = 0 THEN Panic
    ELSE IF Len(kfs) = 1 THEN kfs[1].value
    ELSE LET idx == Scan(kfs, p, 0, 0, 1)
             start_kf == kfs[idx[1] + 1]
             end_kf == kfs[idx[2] + 1]
             segment_duration == RSub(end_kf.offset, start_kf.offset)
             local_progress ==
                 IF RLt(Zero, segment_duration)
                 THEN RDiv(RSub(p, start_kf.offset), segment_duration)
                 ELSE Zero
             eased_progress == Apply(end_kf.easing, local_progress)
         IN  IF idx[1] = idx[2] THEN start_kf.value
             ELSE Lerp(start_kf.value, end_kf.value, eased_progress)

\* a lookup that divides by the segment's width whatever it is
InterpolateAtUnguarded(kfs, p) ==
    IF Len(kfs) = 0 THEN Panic
    ELSE IF Len(kfs) = 1 THEN kfs[1].value
    ELSE LET idx == Scan(kfs, p, 0, 0, 1)
             start_kf == kfs[idx[1] + 1]
             end_kf == kfs[idx[2] + 1]
             segment_duration == RSub(end_kf.offset, start_kf.offset)
             local_progress == RDiv(RSub(p, start_kf.offset), segment_duration)
             eased_progress == Apply(start_kf.easing, local_progress)
         IN  IF idx[1] = idx[2] THEN start_kf.value
             ELSE Lerp(start_kf.value, end_kf.value, eased_progress)

\* a lookup without the single-keyframe return: keyframes[end_idx] is out of
\* bounds when the scan leaves end_idx at 1
InterpolateAtNoShortcut(kfs, p) ==
    IF Len(kfs) = 0 THEN Panic
    ELSE LET idx == Scan(kfs, p, 0, 0, 1)
         IN  IF idx[2] >= Len(kfs) THEN Panic
             ELSE LET start_kf == kfs[idx[1] + 1]
                      end_kf == kfs[idx[2] + 1]
                      segment_duration == RSub(end_kf.offset, start_kf.offset)
                      local_progress ==
                          IF RLt(Zero, segment_duration)
                          THEN RDiv(RSub(p, start_kf.offset), segment_duration)
                          ELSE Zero
                      eased_progress == Apply(start_kf.easing, local_progress)
                  IN  IF idx[1] = idx[2] THEN start_kf.value
                      ELSE Lerp(start_kf.value, end_kf.value, eased_progress)

InterpolateAt(kfs, p) ==
    IF Len(kfs) = 0 THEN Panic
    ELSE IF Len(kfs) = 1 THEN kfs[1].value
    ELSE LET idx == Scan(kfs, p, 0, 0, 1)
             start_kf == kfs[idx[1] + 1]
             end_kf == kfs[idx[2] + 1]
             segment_duration == RSub(end_kf.offset, start_kf.offset)
             local_progress ==
                 IF RLt(Zero, segment_duration)
                 THEN RDiv(RSub(p, start_kf.offset), segment_duration)
                 ELSE Zero
             eased_progress == Apply(start_kf.easing, local_progress)
         IN  IF idx[1] = idx[2] THEN start_kf.value
             ELSE Lerp(start_kf.value, end_kf.value, eased_progress)

\* a value_at that flips the progress on odd loops, as update() does
ValueAtReversed(tr, p) ==
    LET c == Clamp01(p)
    IN  InterpolateAt(tr.keyframes,
            IF tr.reverse_on_complete /\ tr.current_loop % 2 = 1 THEN RSub(One, c) ELSE c)

ValueAt(tr, p) == InterpolateAt(tr.keyframes, Clamp01(p))


(***************************************************************************)
(* Transition<T>: constructors and builders.                               *)
(***************************************************************************)
New(duration, keyframes) ==
    [keyframes |-> keyframes,
     duration |-> duration,
     start_time |-> None,
     state |-> "Idle",
     current_value |-> None,
     loop_count |-> None,
     current_loop |-> 0,
     reverse_on_complete |-> FALSE]

FromTo(duration, from, to, easing) ==
    New(duration, <<WithEasing(KeyframeNew(Zero, from), easing), KeyframeNew(One, to)>>)

WithLoop(tr, count) == [tr EXCEPT !.loop_count = count]

WithReverse(tr, reverse) == [tr EXCEPT !.reverse_on_complete = reverse]

(***************************************************************************)
(* Transition<T>: start / pause / resume / reset / state / is_running.     *)
(***************************************************************************)
\* start() that forgets to reset the loop index
StartKeepsLoop(tr, time) == [tr EXCEPT !.start_time = Some(time), !.state = "Running"]

Start(tr, time) ==
    [tr EXCEPT !.start_time = Some(time), !.state = "Running", !.current_loop = 0]

\* pause() that also takes a finished transition
PauseAlsoComplete(tr) ==
    IF tr.state \in {"Running", "Complete"} THEN [tr EXCEPT !.state = "Paused"] ELSE tr

Pause(tr) == IF tr.state = "Running" THEN [tr EXCEPT !.state = "Paused"] ELSE tr

\* resume() from any state but Running
ResumeFromAny(tr) == IF tr.state # "Running" THEN [tr EXCEPT !.state = "Running"] ELSE tr

Resume(tr) == IF tr.state = "Paused" THEN [tr EXCEPT !.state = "Running"] ELSE tr

\* reset() that keeps the cached value
ResetKeepsValue(tr) ==
    [tr EXCEPT !.start_time = None, !.state = "Idle", !.current_loop = 0]

Reset(tr) ==
    [tr EXCEPT !.start_time = None, !.state = "Idle", !.current_value = None,
               !.current_loop = 0]

IsRunning(tr) == tr.state = "Running"

(***************************************************************************)
(* Transition::update.  UpdateStep gives the transition after the call,    *)
(* the value returned, and what the call observed: the raw progress, if it *)
(* was >= 1.0, and the progress handed to interpolate_at.  When            *)
(* interpolate_at panics the call returns Panic: the fields assigned       *)
(* before the lookup keep their new values and current_value is not         *)
(* assigned.                                                               *)
(***************************************************************************)
NoObs == [ran |-> FALSE]

\* update() that skips only a transition that is not started or is finished
UpdateSkipsUnlessPaused(tr) == tr.state \in {"Idle", "Complete"}

\* update() that also returns the cached value when there are no keyframes
UpdateSkipsOnEmpty(tr) == tr.state # "Running" \/ Len(tr.keyframes) = 0

\* if self.state != TransitionState::Running { return self.current_value.as_ref(); }
UpdateSkips(tr) == tr.state # "Running"

\* elapsed.as_secs_f32() / self.duration.as_secs_f32()
RawProgress(tr, time) == Rat(time - tr.start_time.v, tr.duration)

\* if progress >= 1.0
IsOver(raw) == RLe(One, raw)

\* the budget test without the - 1
CompletesOnePassLate(tr) == tr.loop_count.some /\ tr.current_loop >= tr.loop_count.v

\* max_loops - 1 on usize: a budget of 0 takes it below the range
SubOverflows(tr) == tr.loop_count = Some(0)

\* if let Some(max_loops) = self.loop_count { if self.current_loop >= max_loops - 1
\* (where the subtraction wraps, max_loops - 1 is usize::MAX, which a loop
\* index that grows by one per update does not reach)
Completes(tr) ==
    /\ tr.loop_count.some
    /\ ~SubOverflows(tr)
    /\ tr.current_loop >= tr.loop_count.v - 1

\* a rollover that counts two passes
RolledLoopTwice(tr) == IF tr.loop_count.some THEN tr.current_loop + 2 ELSE tr.current_loop

\* the loop index after a rollover that does not complete the transition
RolledLoop(tr) == IF tr.loop_count.some THEN tr.current_loop + 1 ELSE tr.current_loop

\* a flip decided by the loop index the update started with
ReverseBeforeRollover(tr, loop, progress) ==
    IF tr.reverse_on_complete /\ tr.current_loop % 2 = 1 THEN RSub(One, progress)
    ELSE progress

\* if self.reverse_on_complete && self.current_loop % 2 == 1 { progress = 1.0 - progress; }
Reverse(tr, loop, progress) ==
    IF tr.reverse_on_complete /\ loop % 2 = 1 THEN RSub(One, progress) ELSE progress

\* self.current_value = Some(self.interpolate_at(progress)); self.current_value.as_ref()
Cache(tr, value, seen) ==
    IF value = Panic THEN [tr |-> tr, ret |-> Panic, obs |-> seen]
    ELSE [tr |-> [tr EXCEPT !.current_value = Some(value)], ret |-> Some(value), obs |-> seen]

UpdateStep(tr, time) ==
    IF UpdateSkips(tr) THEN [tr |-> tr, ret |-> tr.current_value, obs |-> NoObs]
    ELSE IF ~tr.start_time.some THEN [tr |-> tr, ret |-> None, obs |-> NoObs]
    ELSE LET raw == RawProgress(tr, time)
             over == IsOver(raw)
             done == over /\ Completes(tr)
             state1 == IF done THEN "Complete" ELSE tr.state
             loop1 == IF over /\ ~done THEN RolledLoop(tr) ELSE tr.current_loop
             start1 == IF over /\ ~done THEN Some(time) ELSE tr.start_time
             clamped == IF done THEN One ELSE IF over THEN Zero ELSE raw
             progress == Reverse(tr, loop1, clamped)
         IN  Cache([tr EXCEPT !.state = state1, !.current_loop = loop1,
                              !.start_time = start1],
                   InterpolateAt(tr.keyframes, progress),
                   [ran |-> TRUE, over |-> over, raw |-> raw, progress |-> progress])

Update(tr, time) == UpdateStep(tr, time).tr

\* the update() that evaluates max_loops - 1 with a budget of 0
UpdateOverflows(tr, time) ==
    /\ ~UpdateSkips(tr)
    /\ tr.start_time.some
    /\ IsOver(RawProgress(tr, time))
    /\ SubOverflows(tr)

\* update() as built: with overflow checks the subtraction panics before any
\* field is assigned (progress still holds the raw progress), without them
\* it wraps
UpdateBuilt(tr, time, overflow_checks) ==
    IF overflow_checks /\ UpdateOverflows(tr, time)
    THEN [tr |-> tr, ret |-> Panic,
          obs |-> [ran |-> TRUE, over |-> TRUE, raw |-> RawProgress(tr, time),
                   progress |-> RawProgress(tr, time)]]
    ELSE UpdateStep(tr, time)

(***************************************************************************)
(* TransitionPresets                                                       *)
(***************************************************************************)
\* `x as i16` of a u16
AsI16(x) == IF x >= 32768 THEN x - 65536 ELSE x

FadeIn(duration) == FromTo(duration, F32(0, 1), F32(1, 1), "EaseOut")

FadeOut(duration) == FromTo(duration, F32(1, 1), F32(0, 1), "EaseIn")

SlideFromLeft(duration, distance) ==
    FromTo(duration, I16(0), I16(AsI16(distance)), "EaseInOut")

BounceScale(duration) ==
    New(duration,
        <<WithEasing(KeyframeNew(Zero, F32(0, 1)), "EaseOut"),
          WithEasing(KeyframeNew(Rat(6, 10), F32(12, 10)), "Bounce"),
          KeyframeNew(One, F32(1, 1))>>)

ElasticEntrance(duration) == FromTo(duration, F32(0, 1), F32(1, 1), "Elastic")

\* pulse with a budget of one pass
PulseOnce(duration, min, max) ==
    WithLoop(
        New(duration,
            <<WithEasing(KeyframeNew(Zero, min), "EaseInOut"),
              WithEasing(KeyframeNew(Half, max), "EaseInOut"),
              KeyframeNew(One, min)>>),
        Some(1))

Pulse(duration, min, max) ==
    WithLoop(
        New(duration,
            <<WithEasing(KeyframeNew(Zero, min), "EaseInOut"),
              WithEasing(KeyframeNew(Half, max), "EaseInOut"),
              KeyframeNew(One, min)>>),
        None)

ColorShift(duration, from, to) == FromTo(duration, from, to, "EaseInOut")

RainbowCycle(duration) ==
    WithLoop(
        New(duration,
            <<WithEasing(KeyframeNew(Zero, Rgb(255, 0, 0)), "Linear"),
              WithEasing(KeyframeNew(Rat(16, 100), Rgb(255, 127, 0)), "Linear"),
              WithEasing(KeyframeNew(Rat(33, 100), Rgb(255, 255, 0)), "Linear"),
              WithEasing(KeyframeNew(Half, Rgb(0, 255, 0)), "Linear"),
              WithEasing(KeyframeNew(Rat(66, 100), Rgb(0, 0, 255)), "Linear"),
              WithEasing(KeyframeNew(Rat(83, 100), Rgb(75, 0, 130)), "Linear"),
              KeyframeNew(One, Rgb(148, 0, 211))>>),
        None)

\* -x of an i16: the negation of i16::MIN overflows, which panics in a build
\* with overflow checks and wraps to i16::MIN in one without
NegOverflows(x) == x = -32768
Neg16(x) == IF NegOverflows(x) THEN x ELSE -x

ShakeHorizontal(duration, amplitude) ==
    LET a == AsI16(amplitude)
    IN  New(duration,
            <<WithEasing(KeyframeNew(Zero, I16(0)), "Linear"),
              WithEasing(KeyframeNew(Rat(1, 10), I16(a)), "Linear"),
              WithEasing(KeyframeNew(Rat(2, 10), I16(Neg16(a))), "Linear"),
              WithEasing(KeyframeNew(Rat(3, 10), I16(a)), "Linear"),
              WithEasing(KeyframeNew(Rat(4, 10), I16(Neg16(a))), "Linear"),
              WithEasing(KeyframeNew(Half, I16(Trunc(Rat(a, 2)))), "Linear"),
              WithEasing(KeyframeNew(Rat(6, 10), I16(-Trunc(Rat(a, 2)))), "Linear"),
              KeyframeNew(One, I16(0))>>)

ZoomIn(duration) ==
    New(duration,
        <<WithEasing(KeyframeNew(Zero, F32(1, 2)), "EaseOut"),
          KeyframeNew(One, F32(1, 1))>>)

(***************************************************************************)
(* The transitions under test: every preset, and the three-keyframe        *)
(* timeline of test_keyframe_interpolation (0.0, 50.0 at 0.5, 100.0) with  *)
(* each loop budget and reverse flag.                                      *)
(***************************************************************************)
OnePassPresets ==
    {"fade_in", "fade_out", "slide_from_left", "bounce_scale", "elastic_entrance",
     "color_shift", "shake_horizontal", "zoom_in"}

Black == Rgb(0, 0, 0)
White == Rgb(255, 255, 255)
PulseMin == F32(8, 10)
PulseMax == F32(12, 10)

Custom(duration) ==
    New(duration,
        <<KeyframeNew(Zero, F32(0, 1)),
          KeyframeNew(Half, F32(50, 1)),
          KeyframeNew(One, F32(100, 1))>>)

PresetConfigs ==
    UNION {
        {[preset |-> "fade_in", tr |-> FadeIn(d)],
         [preset |-> "fade_out", tr |-> FadeOut(d)],
         [preset |-> "slide_from_left", tr |-> SlideFromLeft(d, 8)],
         [preset |-> "bounce_scale", tr |-> BounceScale(d)],
         [preset |-> "elastic_entrance", tr |-> ElasticEntrance(d)],
         [preset |-> "pulse", tr |-> Pulse(d, PulseMin, PulseMax)],
         [preset |-> "color_shift", tr |-> ColorShift(d, Black, White)],
         [preset |-> "color_shift", tr |-> ColorShift(d, Named("Red"), Named("Blue"))],
         [preset |-> "rainbow_cycle", tr |-> RainbowCycle(d)],
         [preset |-> "shake_horizontal", tr |-> ShakeHorizontal(d, 4)],
         [preset |-> "zoom_in", tr |-> ZoomIn(d)]} : d \in Durations}

CustomConfigs ==
    {[preset |-> "custom", tr |-> WithReverse(WithLoop(Custom(d), c), r)] :
        d \in Durations, c \in {None} \cup {Some(n) : n \in LoopBudgets}, r \in BOOLEAN}

Configs == PresetConfigs \cup CustomConfigs

LastValue(tr) == tr.keyframes[Len(tr.keyframes)].value
FirstValue(tr) == tr.keyframes[1].value

(***************************************************************************)
(* History kept beside the Transition under test: the operation before the *)
(* last, the time of the last start(), the updates since then that         *)
(* observed elapsed >= duration, whether an update ran while Running since *)
(* construction or the last reset, and the ticks spent Running and Paused  *)
(* since the reference instant was last set.  overflow_checks is the build *)
(* profile: whether integer overflow panics (debug) or wraps (release).    *)
(***************************************************************************)
InitHistory ==
    [prev_op |-> "new", t0 |-> None, overs |-> 0, ran |-> FALSE, run |-> 0, paused |-> 0,
     overflow_checks |-> TRUE]

\* the build profiles that make a difference to the transition
Profiles(tr) == IF SubOverflows(tr) THEN BOOLEAN ELSE {TRUE}

Init ==
    /\ now = 0
    /\ \E c \in Configs :
          /\ preset = c.preset
          /\ t = c.tr
          /\ pre = c.tr
          /\ \E b \in Profiles(c.tr) : h = [InitHistory EXCEPT !.overflow_checks = b]
    /\ op = "new"
    /\ ret = None
    /\ obs = NoObs
    /\ transitions = <<>>
    /\ mh = [op |-> "new"]
    /\ Widgets

\* A panic ends the program: nothing runs after it.
Alive == ret # Panic

TickTo(bound) ==
    /\ Alive
    /\ now < bound
    /\ now' = now + 1
    /\ op' = "tick"
    /\ pre' = t
    /\ h' = [h EXCEPT !.prev_op = op,
                      !.run = IF t.state = "Running" THEN @ + 1 ELSE @,
                      !.paused = IF t.state = "Paused" THEN @ + 1 ELSE @]
    /\ ret' = None
    /\ obs' = NoObs
    /\ UNCHANGED <<preset, t, transitions, mh, animation, modal>>

Tick == TickTo(MaxTime)

DoStart ==
    /\ Alive
    /\ t' = Start(t, now)
    /\ op' = "start"
    /\ pre' = t
    /\ h' = [h EXCEPT !.prev_op = op, !.t0 = Some(now), !.overs = 0, !.run = 0,
                      !.paused = 0]
    /\ ret' = None
    /\ obs' = NoObs
    /\ UNCHANGED <<now, preset, transitions, mh, animation, modal>>

DoPause ==
    /\ Alive
    /\ t' = Pause(t)
    /\ op' = "pause"
    /\ pre' = t
    /\ h' = [h EXCEPT !.prev_op = op]
    /\ ret' = None
    /\ obs' = NoObs
    /\ UNCHANGED <<now, preset, transitions, mh, animation, modal>>

DoResume ==
    /\ Alive
    /\ t' = Resume(t)
    /\ op' = "resume"
    /\ pre' = t
    /\ h' = [h EXCEPT !.prev_op = op]
    /\ ret' = None
    /\ obs' = NoObs
    /\ UNCHANGED <<now, preset, transitions, mh, animation, modal>>

DoReset ==
    /\ Alive
    /\ t' = Reset(t)
    /\ op' = "reset"
    /\ pre' = t
    /\ h' = [h EXCEPT !.prev_op = op, !.t0 = None, !.overs = 0, !.ran = FALSE,
                      !.run = 0, !.paused = 0]
    /\ ret' = None
    /\ obs' = NoObs
    /\ UNCHANGED <<now, preset, transitions, mh, animation, modal>>

DoUpdate ==
    LET step == UpdateBuilt(t, now, h.overflow_checks)
        over == step.obs.ran /\ step.obs.over
    IN  /\ Alive
        /\ t' = step.tr
        /\ ret' = step.ret
        /\ obs' = IF step.obs.ran
                  THEN [ran |-> TRUE, over |-> step.obs.over, raw |-> step.obs.raw,
                        progress |-> step.obs.progress, run |-> h.run,
                        paused |-> h.paused]
                  ELSE NoObs
        /\ op' = "update"
        /\ pre' = t
        /\ h' = [h EXCEPT !.prev_op = op,
                          !.overs = IF over THEN @ + 1 ELSE @,
                          !.ran = @ \/ step.obs.ran,
                          !.run = IF over THEN 0 ELSE @,
                          !.paused = IF over THEN 0 ELSE @]
        /\ UNCHANGED <<now, preset, transitions, mh, animation, modal>>

Next == Tick \/ DoStart \/ DoPause \/ DoResume \/ DoReset \/ DoUpdate

Spec == Init /\ [][Next]_vars

(***************************************************************************)
(* TransitionManager: a Vec of (name, Box<dyn TransitionTrait>).           *)
(***************************************************************************)
Names == {"a", "b"}

ManagerDurations == {1}

ManagerTransitions ==
    {Pulse(d, PulseMin, PulseMax) : d \in ManagerDurations}
        \cup {WithLoop(Custom(d), Some(n)) : d \in ManagerDurations, n \in 1..2}

\* a trait update() that reports every transition as still running
TraitUpdateReportsRunning(tr, time) == [tr |-> Update(tr, time), running |-> TRUE]

\* impl TransitionTrait for Transition<T>: update() returns is_running()
TraitUpdate(tr, time) ==
    LET u == Update(tr, time) IN [tr |-> u, running |-> IsRunning(u)]

TraitReset(tr) == Reset(tr)

ManagerNew == <<>>

\* add() that starts only a transition that was never started
ManagerAddStartsIdleOnly(ts, name, tr, time) ==
    Append(ts, [name |-> name, tr |-> IF tr.state = "Idle" THEN Start(tr, time) ELSE tr])

ManagerAdd(ts, name, tr, time) == Append(ts, [name |-> name, tr |-> Start(tr, time)])

\* retain_mut(|(_, transition)| transition.update())
ManagerUpdateAll(ts, time) ==
    LET updated == [i \in 1..Len(ts) |->
                        [name |-> ts[i].name, u |-> TraitUpdate(ts[i].tr, time)]]
        Keep(e) == e.u.running
        kept == SelectSeq(updated, Keep)
    IN  [i \in 1..Len(kept) |-> [name |-> kept[i].name, tr |-> kept[i].u.tr]]

\* reset() that resets every entry, whatever its name
ManagerResetAll(ts, name) ==
    [i \in 1..Len(ts) |-> [name |-> ts[i].name, tr |-> TraitReset(ts[i].tr)]]

\* iter_mut().find(|(n, _)| n == name): the first entry of that name
ManagerReset(ts, name) ==
    LET hits == {i \in 1..Len(ts) : ts[i].name = name}
    IN  IF hits = {} THEN ts
        ELSE LET first == CHOOSE i \in hits : \A j \in hits : i <= j
             IN  [ts EXCEPT ![first].tr = TraitReset(@)]

ManagerClear(ts) == <<>>

\* What the caller of add() can hand over: a transition as built, or one that
\* was started at time 0 and updated at u and at the time of the call, running
\* or paused since.
Played(tr, s, u, time) == Update(Update(Start(tr, s), u), time)

OrPaused(trs) == trs \cup {Pause(tr) : tr \in trs}

AddInputs(time) ==
    ManagerTransitions
        \cup OrPaused({Played(tr, 0, u, time) : tr \in ManagerTransitions, u \in 0..time})

InitManager ==
    /\ now = 0
    /\ preset = "fade_in"
    /\ t = FadeIn(MaxDuration)
    /\ pre = FadeIn(MaxDuration)
    /\ op = "new"
    /\ ret = None
    /\ obs = NoObs
    /\ h = InitHistory
    /\ transitions = ManagerNew
    /\ mh = [op |-> "new"]
    /\ Widgets

ManagerTick ==
    /\ now < MaxManagerTime
    /\ now' = now + 1
    /\ mh' = [op |-> "tick"]
    /\ UNCHANGED <<preset, t, op, pre, ret, obs, h, transitions, animation, modal>>

DoAdd ==
    /\ Len(transitions) < MaxEntries
    /\ \E name \in Names, tr \in AddInputs(now) :
          /\ transitions' = ManagerAdd(transitions, name, tr, now)
          /\ mh' = [op |-> "add", before |-> transitions, name |-> name,
                    state |-> tr.state, current_loop |-> tr.current_loop]
    /\ UNCHANGED <<now, preset, t, op, pre, ret, obs, h, animation, modal>>

DoUpdateAll ==
    /\ transitions' = ManagerUpdateAll(transitions, now)
    /\ mh' = [op |-> "update_all", before |-> transitions]
    /\ UNCHANGED <<now, preset, t, op, pre, ret, obs, h, animation, modal>>

DoResetName ==
    /\ \E name \in Names :
          /\ transitions' = ManagerReset(transitions, name)
          /\ mh' = [op |-> "reset", before |-> transitions, name |-> name]
    /\ UNCHANGED <<now, preset, t, op, pre, ret, obs, h, animation, modal>>

DoClear ==
    /\ transitions' = ManagerClear(transitions)
    /\ mh' = [op |-> "clear"]
    /\ UNCHANGED <<now, preset, t, op, pre, ret, obs, h, animation, modal>>

NextManager == ManagerTick \/ DoAdd \/ DoUpdateAll \/ DoResetName \/ DoClear

SpecManager == InitManager /\ [][NextManager]_vars

(***************************************************************************)
(* Properties of the Transition state machine (checked under Spec).        *)
(***************************************************************************)
OverUpdate == op = "update" /\ obs.ran /\ obs.over

\* C1: a one-pass preset goes to Complete at the first update() that observes
\* elapsed >= duration, with progress clamped to 1.0 and the last keyframe's
\* value cached, and a later update() leaves it as it is.
C1_OnePassCompletes ==
    preset \in OnePassPresets =>
        /\ OverUpdate =>
              /\ t.state = "Complete"
              /\ obs.progress = One
              /\ t.current_value = Some(LastValue(t))
        /\ (op = "update" /\ pre.state = "Complete") => t = pre

\* C2: with a loop budget of Some(n), n >= 1, the transition becomes Complete at
\* the n-th update() since start() that observes elapsed >= duration, and it is
\* never Complete before n full durations have passed since that start().
C2_FiniteBudgetCompletes ==
    (t.loop_count.some /\ t.loop_count.v >= 1) =>
        /\ t.state = "Complete" =>
              /\ h.t0.some
              /\ now >= h.t0.v + t.loop_count.v * t.duration
              /\ h.overs = t.loop_count.v
        /\ OverUpdate => (t.state = "Complete" <=> h.overs = t.loop_count.v)
        /\ t.state \in {"Running", "Paused"} => h.overs < t.loop_count.v

C2_Witness ==
    /\ t.loop_count = Some(2)
    /\ OverUpdate
    /\ t.state = "Complete"
    /\ h.overs = 2
    /\ now = h.t0.v + 2 * t.duration

\* C3: a pulse transition is never Complete, and at an update() that observes
\* elapsed >= duration (the first one included) the cached value is min and
\* the transition is still running.
C3_PulseNeverCompletes ==
    preset = "pulse" =>
        /\ t.state # "Complete"
        /\ OverUpdate => (t.current_value = Some(PulseMin) /\ IsRunning(t))

C3_Witness ==
    /\ preset = "pulse"
    /\ OverUpdate
    /\ h.overs = 1
    /\ t.current_value = Some(PulseMin)
    /\ IsRunning(t)

\* C4: with reverse-on-complete, every rollover that does not complete the
\* transition adds one to the loop index, so that pass k (the k-th since
\* start(), from 0) is looked up at p for even k and at 1 - p for odd k.
C4_ReverseAlternates ==
    (t.reverse_on_complete /\ op = "update" /\ obs.ran) =>
        LET k == IF t.state = "Complete" THEN h.overs - 1 ELSE h.overs
            p == IF ~obs.over THEN obs.raw
                 ELSE IF t.state = "Complete" THEN One ELSE Zero
        IN  /\ (obs.over /\ t.state # "Complete") =>
                  t.current_loop = pre.current_loop + 1
            /\ obs.progress = IF k % 2 = 1 THEN RSub(One, p) ELSE p

\* C5: reset() in any state leaves the transition Idle with no cached value,
\* no reference instant and loop index 0, and an update() that follows it
\* returns none.
C5_ResetToIdle ==
    /\ op = "reset" =>
          /\ t.state = "Idle"
          /\ t.current_value = None
          /\ t.start_time = None
          /\ t.current_loop = 0
    /\ (op = "update" /\ h.prev_op = "reset") => (ret = None /\ t = pre)

C5_Witness ==
    /\ op = "reset"
    /\ pre.state = "Complete"
    /\ pre.current_value # None
    /\ pre.current_loop > 0
    /\ t.state = "Idle"

\* C6: pause() changes only the state, and only from Running to Paused;
\* resume() changes only the state, and only from Paused to Running; in any
\* other state each leaves every field as it was.
C6_PauseResumeFrame ==
    /\ op = "pause" =>
          t = IF pre.state = "Running" THEN [pre EXCEPT !.state = "Paused"] ELSE pre
    /\ op = "resume" =>
          t = IF pre.state = "Paused" THEN [pre EXCEPT !.state = "Running"] ELSE pre

C6_Witness ==
    /\ op = "resume"
    /\ pre.state = "Complete"
    /\ pre.current_value # None
    /\ t = pre

\* C7: update() in Idle, Paused or Complete changes no field and returns the
\* cached value, which is none as long as no update() ran while Running since
\* construction or the last reset().
C7_UpdateNoOp ==
    /\ (op = "update" /\ pre.state # "Running") =>
          (t = pre /\ ret = pre.current_value /\ ~obs.ran)
    /\ ~h.ran => t.current_value = None
    /\ (op = "update" /\ pre.state # "Running" /\ ~h.ran) => ret = None

C7_Witness ==
    /\ op = "update"
    /\ pre.state = "Paused"
    /\ pre.current_value # None
    /\ ret = pre.current_value
    /\ t = pre

\* C8: start() in any state records the current time as the reference instant,
\* sets the state to Running and the loop index to 0, changing nothing else; an
\* update() right after it is at progress 0.
C8_StartRestarts ==
    /\ op = "start" =>
          t = [pre EXCEPT !.start_time = Some(now), !.state = "Running",
                          !.current_loop = 0]
    /\ (op = "update" /\ h.prev_op = "start") =>
          (obs.ran /\ obs.raw = Zero /\ obs.progress = Zero)

C8_Witness ==
    /\ op = "start"
    /\ pre.state = "Complete"
    /\ pre.current_loop > 0
    /\ t.state = "Running"
    /\ t.current_loop = 0
    /\ t.start_time = Some(now)

\* C9: pause() and resume() leave the reference instant alone, so the raw
\* progress of an update() counts the ticks spent Paused like those spent
\* Running, and once both together reach the duration the update() rolls over
\* or completes.
C9_PausedIntervalCounts ==
    /\ op \in {"pause", "resume"} => t.start_time = pre.start_time
    /\ (op = "update" /\ obs.ran) =>
          /\ obs.raw = Rat(obs.run + obs.paused, pre.duration)
          /\ obs.run + obs.paused >= pre.duration =>
                /\ obs.over
                /\ \/ t.state = "Complete"
                   \/ t.start_time = Some(now) /\ t.state = "Running"

(***************************************************************************)
(* Properties of the TransitionManager (checked under SpecManager).        *)
(***************************************************************************)
\* C10: the registry holds at most one entry per name.
C10_UniqueNames ==
    \A i, j \in 1..Len(transitions) :
        i # j => transitions[i].name # transitions[j].name

\* An entry update_all() finds due: Running, on the last pass of a finite
\* budget, with a full duration elapsed since its reference instant.
Due(tr, time) ==
    /\ tr.state = "Running"
    /\ tr.loop_count.some
    /\ tr.current_loop >= tr.loop_count.v - 1
    /\ time - tr.start_time.v >= tr.duration

IsInfinite(tr) == ~tr.loop_count.some
IsIdle(tr) == tr.state = "Idle"

CountInfinite(ts) == Cardinality({i \in 1..Len(ts) : IsInfinite(ts[i].tr)})
CountIdle(ts) == Cardinality({i \in 1..Len(ts) : IsIdle(ts[i].tr)})
CountDue(ts, time) == Cardinality({i \in 1..Len(ts) : Due(ts[i].tr, time)})

\* C11: update_all() removes an entry only when its transition has a finite
\* budget and has reached Complete: the entries with an infinite budget and the
\* entries that reset(name) left Idle are all still there after it.
C11_OnlyCompleteRemoved ==
    mh.op = "update_all" =>
        /\ CountInfinite(transitions) = CountInfinite(mh.before)
        /\ CountIdle(transitions) = CountIdle(mh.before)
        /\ Len(transitions) = Len(mh.before) - CountDue(mh.before, now)

\* C12: update_all() updates every entry and drops in the same pass every
\* entry whose transition reached Complete: none of the entries that remain is
\* Complete, each of them has been updated, and every due entry is gone.
C12_NoCompleteEntryRemains ==
    mh.op = "update_all" =>
        /\ \A i \in 1..Len(transitions) :
              /\ transitions[i].tr.state # "Complete"
              /\ transitions[i].tr.state = "Running" =>
                    transitions[i].tr.current_value.some
        /\ Len(transitions) <= Len(mh.before) - CountDue(mh.before, now)

C12_Witness ==
    /\ mh.op = "update_all"
    /\ Len(mh.before) = 2
    /\ Len(transitions) = 1
    /\ Due(mh.before[1].tr, now)
    /\ mh.before[1].tr.loop_count = Some(2)
    /\ transitions[1].name = mh.before[2].name
    /\ transitions[1].tr.state = "Running"

\* C13: right after add(name, t) the new entry is stored under name, Running,
\* with loop index 0 and the time of the call as its reference instant,
\* whatever state t was in, and the entries before it are as they were.
C13_AddStarts ==
    mh.op = "add" =>
        LET n == Len(transitions)
        IN  /\ n = Len(mh.before) + 1
            /\ SubSeq(transitions, 1, n - 1) = mh.before
            /\ transitions[n].name = mh.name
            /\ transitions[n].tr.state = "Running"
            /\ transitions[n].tr.current_loop = 0
            /\ transitions[n].tr.start_time = Some(now)

C13_Witness ==
    /\ mh.op = "add"
    /\ mh.state = "Complete"
    /\ mh.current_loop > 0
    /\ transitions[Len(transitions)].tr.state = "Running"
    /\ transitions[Len(transitions)].tr.current_loop = 0
    /\ now > 0

\* C14: reset(name) leaves the registry as it was when no entry has that name;
\* otherwise it resets the first entry of that name to Idle and leaves the
\* number of entries, their names and every other entry's transition unchanged.
C14_ResetOneEntry ==
    mh.op = "reset" =>
        LET hits == {i \in 1..Len(mh.before) : mh.before[i].name = mh.name}
        IN  IF hits = {} THEN transitions = mh.before
            ELSE /\ Len(transitions) = Len(mh.before)
                 /\ \E i \in hits :
                       /\ \A j \in hits : i <= j
                       /\ transitions[i].name = mh.name
                       /\ transitions[i].tr = Reset(mh.before[i].tr)
                       /\ \A j \in 1..Len(transitions) :
                             j # i => transitions[j] = mh.before[j]

C14_Witness ==
    /\ mh.op = "reset"
    /\ Len(mh.before) = 2
    /\ mh.before[1].name # mh.before[2].name
    /\ mh.before[2].name = mh.name
    /\ mh.before[1].tr.state = "Running"
    /\ mh.before[2].tr.state = "Running"
    /\ transitions[1] = mh.before[1]
    /\ transitions[2].tr.state = "Idle"

(***************************************************************************)
(* Lookups.  A second specification of one Transition: the timelines       *)
(* include the degenerate ones the constructors accept (no keyframe, one   *)
(* keyframe, offsets that do not cover [0,1], a zero Duration), and        *)
(* value_at(p) is called in every play state with progresses inside and    *)
(* outside [0,1].                                                          *)
(***************************************************************************)
MaxLookupTime == 3
LookupDuration == 2

\* examples/svg_demo.rs: Transition::new(Duration::from_millis(0),
\*                                       vec![Keyframe::new(0.0, 0)])
SlideTransition(duration) == New(duration, <<KeyframeNew(Zero, I16(0))>>)

Uncovered2(duration) ==
    New(duration,
        <<KeyframeNew(Rat(1, 4), F32(10, 1)), KeyframeNew(Rat(3, 4), F32(20, 1))>>)

Uncovered3(duration) ==
    New(duration,
        <<KeyframeNew(Rat(1, 5), F32(10, 1)),
          WithEasing(KeyframeNew(Half, F32(30, 1)), "Linear"),
          WithEasing(KeyframeNew(Rat(4, 5), F32(20, 1)), "Bounce")>>)

Uncovered4(duration) ==
    New(duration,
        <<WithEasing(KeyframeNew(Rat(1, 10), I16(5)), "Linear"),
          WithEasing(KeyframeNew(Rat(3, 10), I16(-5)), "EaseIn"),
          WithEasing(KeyframeNew(Rat(6, 10), I16(9)), "EaseOut"),
          WithEasing(KeyframeNew(Rat(9, 10), I16(2)), "Elastic")>>)

\* two adjacent keyframes share the offset 0.5, at the end of the timeline
\* and inside it
ZeroWidthTail(duration) ==
    New(duration,
        <<WithEasing(KeyframeNew(Zero, F32(0, 1)), "Linear"),
          WithEasing(KeyframeNew(Half, F32(10, 1)), "EaseIn"),
          WithEasing(KeyframeNew(Half, F32(20, 1)), "EaseOut")>>)

ZeroWidthMid(duration) ==
    New(duration,
        <<WithEasing(KeyframeNew(Zero, F32(0, 1)), "Linear"),
          WithEasing(KeyframeNew(Half, F32(10, 1)), "EaseIn"),
          WithEasing(KeyframeNew(Half, F32(20, 1)), "EaseOut"),
          KeyframeNew(One, F32(30, 1))>>)

TimelineConfigs ==
    LET d == LookupDuration
    IN  {[preset |-> "custom", tr |-> Custom(d)],
         [preset |-> "custom", tr |-> WithReverse(WithLoop(Custom(d), Some(2)), TRUE)],
         [preset |-> "bounce_scale", tr |-> BounceScale(d)],
         [preset |-> "single", tr |-> WithLoop(SlideTransition(d), Some(1))],
         [preset |-> "single", tr |-> New(d, <<KeyframeNew(Half, F32(7, 1))>>)],
         [preset |-> "uncovered", tr |-> Uncovered2(d)],
         [preset |-> "uncovered", tr |-> Uncovered3(d)],
         [preset |-> "uncovered", tr |-> WithLoop(Uncovered4(d), Some(1))],
         [preset |-> "empty", tr |-> New(d, <<>>)],
         [preset |-> "empty", tr |-> WithLoop(New(d, <<>>), Some(1))],
         [preset |-> "zero_duration", tr |-> SlideTransition(0)],
         [preset |-> "zero_duration", tr |-> FromTo(0, F32(0, 1), F32(1, 1), "Linear")],
         [preset |-> "zero_width", tr |-> ZeroWidthTail(d)],
         [preset |-> "zero_width", tr |-> ZeroWidthMid(d)]}

\* u16 arguments of shake_horizontal and slide_from_left
Amplitudes == {1, 5, 32768, 40000}
Distances == {1, 8, 40000}

\* What building shake_horizontal(d, amplitude) gives: a Transition (None), or
\* at i16::MIN a panic in a build with overflow checks.
ShakeOutcomes(amplitude) ==
    IF NegOverflows(AsI16(amplitude)) THEN {None, Panic} ELSE {None}

LookupConfigs ==
    {[preset |-> c.preset, tr |-> c.tr, ret |-> None] : c \in TimelineConfigs}
        \cup {[preset |-> "shake_horizontal", tr |-> ShakeHorizontal(LookupDuration, a),
               ret |-> r] : <<a, r>> \in {x \in Amplitudes \X {None, Panic} :
                                            x[2] \in ShakeOutcomes(x[1])}}
        \cup {[preset |-> "slide_from_left", tr |-> SlideFromLeft(LookupDuration, dist),
               ret |-> None] : dist \in Distances}

Offsets(tr) == {tr.keyframes[i].offset : i \in 1..Len(tr.keyframes)}

Progresses(tr) ==
    {Rat(-1, 2), Zero, Rat(1, 4), Half, Rat(3, 4), One, Rat(3, 2)} \cup Offsets(tr)

InitLookup ==
    /\ now = 0
    /\ \E c \in LookupConfigs :
          preset = c.preset /\ t = c.tr /\ pre = c.tr /\ ret = c.ret
    /\ op = "new"
    /\ obs = NoObs
    /\ h = InitHistory
    /\ transitions = <<>>
    /\ mh = [op |-> "new"]
    /\ Widgets

LookupTick == TickTo(MaxLookupTime)

\* value_at takes &self: no field is assigned
DoValueAt ==
    \E p \in Progresses(t) :
        /\ Alive
        /\ ret' = ValueAt(t, p)
        /\ obs' = [ran |-> FALSE, p |-> p]
        /\ op' = "value_at"
        /\ pre' = t
        /\ h' = [h EXCEPT !.prev_op = op]
        /\ UNCHANGED <<now, preset, t, transitions, mh, animation, modal>>

NextLookup ==
    LookupTick \/ DoStart \/ DoPause \/ DoResume \/ DoReset \/ DoUpdate \/ DoValueAt

SpecLookup == InitLookup /\ [][NextLookup]_vars

(***************************************************************************)
(* Claims about construction and the keyframe lookup.                      *)
(***************************************************************************)
Increasing(kfs) ==
    \A i \in 1..(Len(kfs) - 1) : RLe(kfs[i].offset, kfs[i + 1].offset)

StrictlyIncreasing(kfs) ==
    \A i \in 1..(Len(kfs) - 1) : RLt(kfs[i].offset, kfs[i + 1].offset)

\* C15: a zero Duration is rejected at construction, so every update() that
\* runs on a started transition divides the elapsed time by a positive
\* duration and computes a finite progress.
C15_ZeroDurationRejected ==
    (op = "update" /\ obs.ran) => pre.duration > 0 /\ IsFinite(obs.raw)

\* C16: with no keyframe, every value_at(p) and every update() made while
\* Running aborts, an update() in any other state returns None, and no value
\* is ever cached.
C16_EmptyTimelineAborts ==
    Len(t.keyframes) = 0 =>
        /\ t.current_value = None
        /\ op = "value_at" => ret = Panic
        /\ op = "update" => ret = (IF pre.state = "Running" THEN Panic ELSE None)

C16_Witness ==
    /\ Len(t.keyframes) = 0
    /\ op = "update"
    /\ pre.state = "Running"
    /\ ret = Panic
    /\ t.current_value = None

\* C17: value_at(p) changes no field of the Transition, returns the lookup of
\* the keyframes at p clamped to [0,1], and returns what a freshly built
\* transition (Idle, loop index 0, no reverse) with the same keyframes returns.
C17_ValueAtPure ==
    op = "value_at" =>
        /\ t = pre
        /\ ret = InterpolateAt(t.keyframes, Clamp01(obs.p))
        /\ ret = ValueAt(New(t.duration, t.keyframes), obs.p)

C17_Witness ==
    /\ op = "value_at"
    /\ t.state = "Running"
    /\ t.reverse_on_complete
    /\ t.current_loop = 1
    /\ t.current_value.some
    /\ RLt(One, obs.p)
    /\ ret = LastValue(t)

\* C18: on a timeline with strictly increasing offsets, value_at at the
\* offset of a keyframe returns that keyframe's value.
C18_ExactAtOffsets ==
    (op = "value_at" /\ StrictlyIncreasing(t.keyframes)) =>
        \A i \in 1..Len(t.keyframes) :
            obs.p = t.keyframes[i].offset => ret = t.keyframes[i].value

C18_Witness ==
    /\ op = "value_at"
    /\ preset = "custom"
    /\ obs.p = Half
    /\ ret = F32(50, 1)

\* C19: on a timeline of two or more keyframes with increasing offsets,
\* value_at(p) is the first keyframe's value for p below the first offset and
\* the last keyframe's value for p above the last offset.
C19_OutsideOffsets ==
    (op = "value_at" /\ Len(t.keyframes) >= 2 /\ Increasing(t.keyframes)) =>
        LET p == Clamp01(obs.p)
        IN  /\ RLt(p, t.keyframes[1].offset) => ret = FirstValue(t)
            /\ RLt(t.keyframes[Len(t.keyframes)].offset, p) => ret = LastValue(t)

C19_Witness ==
    /\ op = "value_at"
    /\ Len(t.keyframes) >= 3
    /\ Increasing(t.keyframes)
    /\ RLt(t.keyframes[Len(t.keyframes)].offset, obs.p)
    /\ RLe(obs.p, One)
    /\ ret = LastValue(t)
    /\ ret # t.keyframes[2].value

Inside(kfs, i, p) == RLt(kfs[i].offset, p) /\ RLt(p, kfs[i + 1].offset)

\* (p - o_i) / (o_{i+1} - o_i)
Local(kfs, i, p) ==
    RDiv(RSub(p, kfs[i].offset), RSub(kfs[i + 1].offset, kfs[i].offset))

WithLastEasing(kfs, easing) == [kfs EXCEPT ![Len(kfs)].easing = easing]

\* C21: on a timeline with increasing offsets, value_at(p) for p strictly
\* inside the segment from keyframe i to keyframe i + 1 is
\* lerp(v_i, v_{i+1}, easing_i.apply((p - o_i) / (o_{i+1} - o_i))), and no value
\* changes when the last keyframe is given any other easing.
C21_StartEasingGoverns ==
    (op = "value_at" /\ Increasing(t.keyframes)) =>
        LET p == Clamp01(obs.p)
            kfs == t.keyframes
        IN  /\ \A i \in 1..(Len(kfs) - 1) :
                  Inside(kfs, i, p) =>
                      ret = Lerp(kfs[i].value, kfs[i + 1].value,
                                 Apply(kfs[i].easing, Local(kfs, i, p)))
            /\ Len(kfs) > 0 =>
                  \A e \in Easings : InterpolateAt(WithLastEasing(kfs, e), p) = ret

C21_Witness ==
    /\ op = "value_at"
    /\ preset = "bounce_scale"
    /\ obs.p = Rat(3, 4)
    /\ t.keyframes[2].easing = "Bounce"
    /\ t.keyframes[3].easing = "EaseInOut"
    /\ ret = Lerp(F32(12, 10), F32(1, 1), Bounce(Rat(3, 8)))
    /\ ret # Lerp(F32(12, 10), F32(1, 1), EaseInOut(Rat(3, 8)))

\* C23: on a timeline with increasing offsets in which keyframes k and k + 1
\* share an offset o, every value is finite, value_at(o) is the value of the
\* first keyframe at o, and for p above o up to the next keyframe the segment
\* starts from keyframe k + 1: a zero-width segment has local progress 0.
C23_ZeroWidthSegment ==
    (op = "value_at" /\ Increasing(t.keyframes)) =>
        LET p == Clamp01(obs.p)
            kfs == t.keyframes
        IN  \A k \in 1..(Len(kfs) - 1) :
                kfs[k].offset = kfs[k + 1].offset =>
                    /\ ret.ty = "f32" => IsFinite(ret.q)
                    /\ (p = kfs[k].offset /\ (k = 1 \/ kfs[k - 1].offset # p)) =>
                           ret = kfs[k].value
                    /\ (RLt(kfs[k].offset, p) /\ k + 1 = Len(kfs)) =>
                           ret = kfs[k + 1].value
                    /\ (k + 1 < Len(kfs) /\ Inside(kfs, k + 1, p)) =>
                           ret = Lerp(kfs[k + 1].value, kfs[k + 2].value,
                                      Apply(kfs[k + 1].easing, Local(kfs, k + 1, p)))

C23_Witness ==
    /\ op = "value_at"
    /\ t.keyframes = ZeroWidthTail(LookupDuration).keyframes
    /\ obs.p = Rat(3, 4)
    /\ ret = F32(20, 1)

\* C27: building shake_horizontal(d, a) never overflows, and for every
\* amplitude a >= 1 its value is 0 at progress 0.0 and 1.0, a at 0.1 and 0.3,
\* -a at 0.2 and 0.4, a/2 > 0 at 0.5 and -(a/2) < 0 at 0.6.
C27_ShakeSigns ==
    preset = "shake_horizontal" =>
        /\ ret # Panic
        /\ op = "value_at" =>
              \A a \in Amplitudes :
                  t.keyframes = ShakeHorizontal(t.duration, a).keyframes =>
                      /\ obs.p \in {Zero, One} => ret = I16(0)
                      /\ obs.p \in {Rat(1, 10), Rat(3, 10)} => ret = I16(a)
                      /\ obs.p \in {Rat(2, 10), Rat(4, 10)} => ret = I16(0 - a)
                      /\ obs.p = Half => ret = I16(a \div 2) /\ ret.i > 0
                      /\ obs.p = Rat(6, 10) => ret = I16(0 - (a \div 2)) /\ ret.i < 0

\* C28: for every distance, slide_from_left(d, distance) gives 0 at progress
\* 0.0, distance at 1.0 and a value in [0, distance] at every progress in
\* [0,1].
C28_SlideRange ==
    (preset = "slide_from_left" /\ op = "value_at") =>
        \A dist \in Distances :
            t.keyframes = SlideFromLeft(t.duration, dist).keyframes =>
                /\ obs.p = Zero => ret = I16(0)
                /\ obs.p = One => ret = I16(dist)
                /\ (RLe(Zero, obs.p) /\ RLe(obs.p, One)) => (0 <= ret.i /\ ret.i <= dist)

(***************************************************************************)
(* Values.  A third specification, of the pure functions alone:            *)
(* Easing::apply, the Color lerp and the lookup of a color_shift are       *)
(* called with every easing, colors of both kinds and fractions on a grid  *)
(* from -0.5 to 1.5; op, obs and ret hold the call, its arguments and its  *)
(* result.                                                                 *)
(***************************************************************************)
Grid == 8

Fractions ==
    {Rat(k, Grid) : k \in (0 - Grid \div 2)..(Grid + Grid \div 2)} \cup {Half}

Colors == {Black, White, Rgb(10, 200, 77), Named("Red"), Named("Blue")}

InitValues ==
    /\ now = 0
    /\ preset = "fade_in"
    /\ t = FadeIn(MaxDuration)
    /\ pre = FadeIn(MaxDuration)
    /\ op = "new"
    /\ ret = None
    /\ obs = NoObs
    /\ h = InitHistory
    /\ transitions = <<>>
    /\ mh = [op |-> "new"]
    /\ Widgets

\* easing.apply(x)
DoApply ==
    \E e \in Easings, x \in Fractions :
        /\ op' = "apply"
        /\ obs' = [ran |-> FALSE, easing |-> e, x |-> x]
        /\ ret' = [ty |-> "f32", q |-> Apply(e, x)]
        /\ UNCHANGED <<now, preset, t, pre, h, transitions, mh, animation, modal>>

\* a.lerp(&b, x) on Color
DoLerp ==
    \E a \in Colors, b \in Colors, x \in Fractions :
        /\ op' = "lerp"
        /\ obs' = [ran |-> FALSE, a |-> a, b |-> b, x |-> x]
        /\ ret' = Lerp(a, b, x)
        /\ UNCHANGED <<now, preset, t, pre, h, transitions, mh, animation, modal>>

\* TransitionPresets::color_shift(d, a, b).value_at(x)
DoColorShiftAt ==
    \E a \in Colors, b \in Colors, x \in Fractions :
        /\ op' = "color_shift"
        /\ obs' = [ran |-> FALSE, a |-> a, b |-> b, x |-> x]
        /\ ret' = ValueAt(ColorShift(LookupDuration, a, b), x)
        /\ UNCHANGED <<now, preset, t, pre, h, transitions, mh, animation, modal>>

NextValues == DoApply \/ DoLerp \/ DoColorShiftAt

SpecValues == InitValues /\ [][NextValues]_vars

\* C24: apply(0.0) = 0.0 and apply(1.0) = 1.0 for every easing.
C24_EasingEndpoints ==
    op = "apply" =>
        /\ obs.x = Zero => ret = F32(0, 1)
        /\ obs.x = One => ret = F32(1, 1)

C24_Witness ==
    /\ op = "apply"
    /\ obs.easing = "Bounce"
    /\ obs.x = One
    /\ ret = F32(1, 1)

\* C25: apply(x) = apply(clamp(x, 0, 1)) for every easing and every x: it is
\* apply(0) for x < 0 and apply(1) for x > 1.
C25_ApplyClamps ==
    op = "apply" =>
        /\ ret.q = Apply(obs.easing, Clamp01(obs.x))
        /\ RLt(obs.x, Zero) => ret.q = Apply(obs.easing, Zero)
        /\ RLt(One, obs.x) => ret.q = Apply(obs.easing, One)

C25_Witness ==
    /\ op = "apply"
    /\ obs.easing = "EaseOut"
    /\ obs.x = Rat(-1, 2)
    /\ ret = F32(0, 1)

\* channel r of the blend of c1 and c2 at x: the truncation of
\* c1 + (c2 - c1) * x, between c1 and c2
Channel(c1, c2, x, r) ==
    /\ r = Trunc(RAdd(Rat(c1, 1), RMul(Rat(c2 - c1, 1), x)))
    /\ (c1 <= r /\ r <= c2) \/ (c2 <= r /\ r <= c1)

\* C29: the lerp of two RGB colors at x in [0,1] blends each channel on its
\* own, gives the first color at 0 and the second at 1, and gives
\* (127,127,127) half way from (0,0,0) to (255,255,255).
C29_RgbLerp ==
    (/\ op = "lerp"
     /\ obs.a.ty = "rgb"
     /\ obs.b.ty = "rgb"
     /\ RLe(Zero, obs.x)
     /\ RLe(obs.x, One)) =>
        /\ ret.ty = "rgb"
        /\ Channel(obs.a.r, obs.b.r, obs.x, ret.r)
        /\ Channel(obs.a.g, obs.b.g, obs.x, ret.g)
        /\ Channel(obs.a.b, obs.b.b, obs.x, ret.b)
        /\ obs.x = Zero => ret = obs.a
        /\ obs.x = One => ret = obs.b
        /\ (obs.a = Black /\ obs.b = White /\ obs.x = Half) => ret = Rgb(127, 127, 127)

C29_Witness ==
    /\ op = "lerp"
    /\ obs.a = Black
    /\ obs.b = White
    /\ obs.x = Half
    /\ ret = Rgb(127, 127, 127)

\* C30: a Color lerp with an argument that is not RGB returns the first
\* argument for every x, and a color_shift between two such colors gives the
\* from color at every progress below 1.0.
C30_NonRgbLerp ==
    /\ (op = "lerp" /\ (obs.a.ty # "rgb" \/ obs.b.ty # "rgb")) => ret = obs.a
    /\ (/\ op = "color_shift"
        /\ obs.a.ty # "rgb"
        /\ obs.b.ty # "rgb"
        /\ RLt(obs.x, One)) => ret = obs.a

C30_Witness ==
    /\ op = "color_shift"
    /\ obs.a = Named("Red")
    /\ obs.b = Named("Blue")
    /\ obs.x = Rat(3, 4)
    /\ ret = Named("Red")


(***************************************************************************)
(* f32 with its rounding.  The rationals above are exact, which is what    *)
(* the code computes wherever its operands and results are representable;  *)
(* how close a result comes to a bound is decided by the rounding of each  *)
(* operation.  A finite f32 is s * m * 2^e with s in {-1, 0, 1} and, when  *)
(* s # 0, 24 significant bits: 2^23 <= m < 2^24.  Every operation rounds   *)
(* its exact result to the nearest such value, ties to the even m.  The    *)
(* values used stay far from the exponent limits: no overflow, no          *)
(* subnormal.                                                              *)
(***************************************************************************)
RECURSIVE Pow2(_)
Pow2(k) == IF k <= 0 THEN 1 ELSE 2 * Pow2(k - 1)

RECURSIVE BitLen(_)
BitLen(n) == IF n = 0 THEN 0 ELSE 1 + BitLen(n \div 2)

Hidden == Pow2(23)

Float(s, m, e) == [s |-> s, m |-> m, e |-> e]

FZero == Float(0, 0, 0)

\* q with its lowest bit set when bits were dropped below it
Jam(q, inexact) == IF inexact /\ q % 2 = 0 THEN q + 1 ELSE q

\* s * n * 2^e for 0 <= n < 2^31, rounded to 24 bits
RoundToF32(s, n, e) ==
    IF n = 0 THEN FZero
    ELSE LET k == BitLen(n) - 24
         IN  IF k <= 0 THEN Float(s, n * Pow2(0 - k), e + k)
             ELSE LET q == n \div Pow2(k)
                      r == n % Pow2(k)
                      half == Pow2(k - 1)
                      m == IF r > half \/ (r = half /\ q % 2 = 1) THEN q + 1 ELSE q
                  IN  IF m = 2 * Hidden THEN Float(s, Hidden, e + k + 1)
                      ELSE Float(s, m, e + k)

FromInt(n) == RoundToF32(Sign(n), Abs(n), 0)

\* n / 2^k
Dyadic(n, k) == RoundToF32(Sign(n), Abs(n), 0 - k)

FNeg(a) == Float(0 - a.s, a.m, a.e)

MagLt(a, b) == a.e < b.e \/ (a.e = b.e /\ a.m < b.m)

FLt(a, b) ==
    IF a.s # b.s THEN a.s < b.s
    ELSE IF a.s = 1 THEN MagLt(a, b)
    ELSE IF a.s = -1 THEN MagLt(b, a)
    ELSE FALSE

FLe(a, b) == a = b \/ FLt(a, b)

\* a + b for a.e >= b.e, neither zero: b is shifted down to a's exponent
\* under six guard bits
AddAligned(a, b) ==
    LET d == a.e - b.e
        small == IF d >= 30 THEN 1
                 ELSE Jam((b.m * 64) \div Pow2(d), (b.m * 64) % Pow2(d) # 0)
        sum == a.s * a.m * 64 + b.s * small
    IN  RoundToF32(Sign(sum), Abs(sum), a.e - 6)

FAdd(a, b) ==
    IF a.s = 0 THEN b
    ELSE IF b.s = 0 THEN a
    ELSE IF a.e >= b.e THEN AddAligned(a, b)
    ELSE AddAligned(b, a)

FSub(a, b) == FAdd(a, FNeg(b))

\* the 48-bit product of the significands in 12-bit halves, its upper 30
\* bits rounded
FMul(a, b) ==
    IF a.s = 0 \/ b.s = 0 THEN FZero
    ELSE LET a1 == a.m \div 4096
             a0 == a.m % 4096
             b1 == b.m \div 4096
             b0 == b.m % 4096
             cross == a1 * b0 + a0 * b1
             low == (cross % 4096) * 4096 + a0 * b0
             hi == a1 * b1 + cross \div 4096 + low \div (2 * Hidden)
             lo == low % (2 * Hidden)
         IN  RoundToF32(a.s * b.s,
                        Jam(hi * 64 + lo \div Pow2(18), lo % Pow2(18) # 0),
                        a.e + b.e + 18)

\* long division: the first `bits` bits of rem / d, for rem < 2 * d
RECURSIVE Quotient(_, _, _, _)
Quotient(rem, d, q, bits) ==
    IF bits = 0 THEN Jam(q, rem # 0)
    ELSE IF rem >= d THEN Quotient(2 * (rem - d), d, 2 * q + 1, bits - 1)
    ELSE Quotient(2 * rem, d, 2 * q, bits - 1)

\* a / b for b # 0
FDiv(a, b) ==
    IF a.s = 0 THEN FZero
    ELSE RoundToF32(a.s * b.s, Quotient(a.m, b.m, 0, 30), a.e - b.e - 29)

\* the f32 nearest to a rational: what a literal or a stored value is
ToF32(q) == FDiv(FromInt(q[1]), FromInt(q[2]))

FOne == FromInt(1)
FTwo == FromInt(2)
FFour == FromInt(4)
FHalf == Dyadic(1, 1)

\* f32::clamp(0.0, 1.0)
FClamp01(x) == IF FLt(x, FZero) THEN FZero ELSE IF FLt(FOne, x) THEN FOne ELSE x

(***************************************************************************)
(* Easing::apply, the f32 lerp and Transition::interpolate_at as the f32   *)
(* operations they are, for every easing but Elastic (which calls powf and *)
(* sin).                                                                   *)
(***************************************************************************)
Polynomial == {"Linear", "EaseIn", "EaseOut", "EaseInOut"}

EaseInF32(u) == FMul(u, u)

\* an ease-out with the ease-in formula
EaseOutF32Squares(u) == FMul(u, u)

\* an ease-out of t * (2 + t)
EaseOutF32Overshoots(u) == FMul(u, FAdd(FTwo, u))

EaseOutF32(u) == FMul(u, FSub(FTwo, u))

EaseInOutF32(u) ==
    IF FLt(u, FHalf)
    THEN FMul(FMul(FTwo, u), u)
    ELSE FAdd(FNeg(FOne), FMul(FSub(FFour, FMul(FTwo, u)), u))

\* the constants of the bounce formula
BounceGain == ToF32(Rat(121, 16))
BounceSpan == ToF32(Rat(11, 4))

\* t < n / 2.75
BounceEdge(q) == FDiv(ToF32(q), BounceSpan)

\* 7.5625 * t * t + base
BounceArc(w, base) == FAdd(FMul(FMul(BounceGain, w), w), base)

\* a bounce whose second arc is not shifted to its own origin
BounceF32Unshifted(u) ==
    IF FLt(u, BounceEdge(Rat(1, 1))) THEN FMul(FMul(BounceGain, u), u)
    ELSE IF FLt(u, BounceEdge(Rat(2, 1))) THEN BounceArc(u, ToF32(Rat(3, 4)))
    ELSE IF FLt(u, BounceEdge(Rat(5, 2)))
         THEN BounceArc(FSub(u, BounceEdge(Rat(9, 4))), ToF32(Rat(15, 16)))
    ELSE BounceArc(FSub(u, BounceEdge(Rat(21, 8))), ToF32(Rat(63, 64)))

BounceF32(u) ==
    IF FLt(u, BounceEdge(Rat(1, 1))) THEN FMul(FMul(BounceGain, u), u)
    ELSE IF FLt(u, BounceEdge(Rat(2, 1)))
         THEN BounceArc(FSub(u, BounceEdge(Rat(3, 2))), ToF32(Rat(3, 4)))
    ELSE IF FLt(u, BounceEdge(Rat(5, 2)))
         THEN BounceArc(FSub(u, BounceEdge(Rat(9, 4))), ToF32(Rat(15, 16)))
    ELSE BounceArc(FSub(u, BounceEdge(Rat(21, 8))), ToF32(Rat(63, 64)))

ApplyF32(easing, x) ==
    CASE easing = "Linear" -> FClamp01(x)
      [] easing = "EaseIn" -> EaseInF32(FClamp01(x))
      [] easing = "EaseOut" -> EaseOutF32(FClamp01(x))
      [] easing = "EaseInOut" -> EaseInOutF32(FClamp01(x))
      [] easing = "Bounce" -> BounceF32(FClamp01(x))

\* self + (other - self) * t
LerpF32(a, b, x) == FAdd(a, FMul(FSub(b, a), x))

\* the keyframes of a scalar timeline with their offsets and values as f32
KeyframesF32(kfs) ==
    [i \in DOMAIN kfs |->
        [offset |-> ToF32(kfs[i].offset),
         value |-> ToF32(kfs[i].value.q),
         easing |-> kfs[i].easing]]

RECURSIVE ScanF32(_, _, _, _, _)
ScanF32(kfs, p, i, start_idx, end_idx) ==
    IF i >= Len(kfs) THEN <<start_idx, end_idx>>
    ELSE LET kf == kfs[i + 1]
             s == IF FLe(kf.offset, p) THEN i ELSE start_idx
         IN  IF FLe(p, kf.offset) THEN <<s, i>>
             ELSE ScanF32(kfs, p, i + 1, s, end_idx)

InterpolateAtF32(kfs, p) ==
    IF Len(kfs) = 0 THEN Panic
    ELSE IF Len(kfs) = 1 THEN kfs[1].value
    ELSE LET idx == ScanF32(kfs, p, 0, 0, 1)
             start_kf == kfs[idx[1] + 1]
             end_kf == kfs[idx[2] + 1]
             segment_duration == FSub(end_kf.offset, start_kf.offset)
             local_progress ==
                 IF FLt(FZero, segment_duration)
                 THEN FDiv(FSub(p, start_kf.offset), segment_duration)
                 ELSE FZero
         IN  IF idx[1] = idx[2] THEN start_kf.value
             ELSE LerpF32(start_kf.value, end_kf.value,
                          ApplyF32(start_kf.easing, local_progress))

ValueAtF32(kfs, p) == InterpolateAtF32(kfs, FClamp01(p))

(***************************************************************************)
(* Rounded values.  A specification of Easing::apply and of value_at on    *)
(* scalar timelines in f32: the grid of fractions, and progresses one or   *)
(* a few roundings away from 0, 0.5 and 1.                                 *)
(***************************************************************************)
\* test_keyframe_interpolation's timeline with one easing on every keyframe
CustomEased(easing) ==
    [i \in 1..3 |-> WithEasing(Custom(LookupDuration).keyframes[i], easing)]

ScalarTimelines ==
    {[preset |-> "fade_in", kfs |-> KeyframesF32(FadeIn(LookupDuration).keyframes)],
     [preset |-> "fade_out", kfs |-> KeyframesF32(FadeOut(LookupDuration).keyframes)],
     [preset |-> "zoom_in", kfs |-> KeyframesF32(ZoomIn(LookupDuration).keyframes)]}
    \cup {[preset |-> "custom", kfs |-> KeyframesF32(CustomEased(e))] : e \in Polynomial}
    \cup {[preset |-> "from_to",
           kfs |-> KeyframesF32(
                       FromTo(LookupDuration, F32(-3, 1), F32(2, 10), e).keyframes)] :
             e \in Polynomial}

EdgeProgresses ==
    {Dyadic(1, 13), Dyadic(1, 24), Dyadic(1, 30),
     FSub(FOne, Dyadic(1, 24)), FSub(FOne, Dyadic(1, 23)),
     FSub(FHalf, Dyadic(1, 25)), FAdd(FHalf, Dyadic(1, 24))}

ProgressesF32 == {ToF32(x) : x \in Fractions} \cup EdgeProgresses

\* the f32 values next to a positive x
Below(x) == IF x.m = Hidden THEN Float(1, 2 * Hidden - 1, x.e - 1) ELSE Float(1, x.m - 1, x.e)
Above(x) == IF x.m + 1 = 2 * Hidden THEN Float(1, Hidden, x.e + 1) ELSE Float(1, x.m + 1, x.e)

\* the arguments at which Bounce changes arcs, and their neighbours
BounceEdges == {BounceEdge(q) : q \in {Rat(1, 1), Rat(2, 1), Rat(5, 2)}}

ApplyInputs ==
    ProgressesF32 \cup BounceEdges \cup {Below(x) : x \in BounceEdges}
        \cup {Above(x) : x \in BounceEdges}

InRange == Polynomial \cup {"Bounce"}

InitF32 == InitValues

\* easing.apply(x)
DoApplyF32 ==
    \E e \in InRange, x \in ApplyInputs :
        /\ op' = "apply"
        /\ obs' = [ran |-> FALSE, easing |-> e, x |-> x]
        /\ ret' = ApplyF32(e, x)
        /\ UNCHANGED <<now, preset, t, pre, h, transitions, mh, animation, modal>>

\* transition.value_at(p)
DoValueAtF32 ==
    \E c \in ScalarTimelines, p \in ProgressesF32 :
        /\ op' = "value_at"
        /\ obs' = [ran |-> FALSE, preset |-> c.preset, kfs |-> c.kfs, p |-> p]
        /\ ret' = ValueAtF32(c.kfs, p)
        /\ UNCHANGED <<now, preset, t, pre, h, transitions, mh, animation, modal>>

NextF32 == DoApplyF32 \/ DoValueAtF32

SpecF32 == InitF32 /\ [][NextF32]_vars

StrictlyIncreasingF32(kfs) ==
    \A i \in 1..(Len(kfs) - 1) : FLt(kfs[i].offset, kfs[i + 1].offset)

\* p lies strictly inside the segment from keyframe i to keyframe i + 1
InsideF32(kfs, i, p) == FLt(kfs[i].offset, p) /\ FLt(p, kfs[i + 1].offset)

StrictlyBetween(v, a, b) ==
    (FLt(a, v) /\ FLt(v, b)) \/ (FLt(b, v) /\ FLt(v, a))

Between(v, a, b) ==
    (FLe(a, v) /\ FLe(v, b)) \/ (FLe(b, v) /\ FLe(v, a))

\* the segments of the timeline that p is strictly inside, that use a
\* polynomial easing and that join two different values
EasedSegments(kfs, p) ==
    {i \in 1..(Len(kfs) - 1) :
        /\ InsideF32(kfs, i, p)
        /\ kfs[i].easing \in Polynomial
        /\ kfs[i].value # kfs[i + 1].value}

\* C22 as stated: on a scalar timeline with increasing offsets, value_at(p)
\* for p strictly inside a segment eased by Linear, EaseIn, EaseOut or
\* EaseInOut lies strictly between the two keyframes' values when they differ.
C22_StrictlyBetween ==
    (op = "value_at" /\ StrictlyIncreasingF32(obs.kfs)) =>
        \A i \in EasedSegments(obs.kfs, FClamp01(obs.p)) :
            StrictlyBetween(ret, obs.kfs[i].value, obs.kfs[i + 1].value)

\* C22 as amended: under the same conditions value_at(p) lies between the
\* start keyframe's value a and the blend at eased progress 1.0, a + (b - a)
\* as f32 computes it, ends included; on the timeline 0.0, 50.0 at 0.5, 100.0
\* value_at(0.25) is strictly between 0 and 50.
C22_WithinBlend ==
    (op = "value_at" /\ StrictlyIncreasingF32(obs.kfs)) =>
        /\ \A i \in EasedSegments(obs.kfs, FClamp01(obs.p)) :
               Between(ret, obs.kfs[i].value,
                       LerpF32(obs.kfs[i].value, obs.kfs[i + 1].value, FOne))
        /\ (obs.preset = "custom" /\ obs.p = Dyadic(1, 2)) =>
               StrictlyBetween(ret, FZero, FromInt(50))

C22_Witness ==
    /\ op = "value_at"
    /\ obs.preset = "fade_out"
    /\ obs.p = Dyadic(1, 13)
    /\ EasedSegments(obs.kfs, obs.p) = {1}
    /\ ret = FOne
    /\ ret = obs.kfs[1].value

\* the largest f32 below 1.0
BelowOne == FSub(FOne, Dyadic(1, 24))

\* C26 as stated: for x strictly between 0 and 1, Linear.apply(x) = x,
\* EaseIn.apply(x) < x and EaseOut.apply(x) > x.
C26_EasingOrder ==
    (op = "apply" /\ FLt(FZero, obs.x) /\ FLt(obs.x, FOne)) =>
        /\ obs.easing = "Linear" => ret = obs.x
        /\ obs.easing = "EaseIn" => FLt(ret, obs.x)
        /\ obs.easing = "EaseOut" => FLt(obs.x, ret)

\* C26 as amended: for x strictly between 0 and 1, Linear.apply(x) = x,
\* EaseIn.apply(x) < x and EaseOut.apply(x) >= x, with EaseOut.apply(x) > x
\* for every x but the largest f32 below 1.0 (so also at 0.5).
C26_EasingOrderRounded ==
    (op = "apply" /\ FLt(FZero, obs.x) /\ FLt(obs.x, FOne)) =>
        /\ obs.easing = "Linear" => ret = obs.x
        /\ obs.easing = "EaseIn" => FLt(ret, obs.x)
        /\ obs.easing = "EaseOut" =>
               /\ FLe(obs.x, ret)
               /\ obs.x # BelowOne => FLt(obs.x, ret)

C26_Witness ==
    /\ op = "apply"
    /\ obs.easing = "EaseOut"
    /\ obs.x = BelowOne
    /\ ret = obs.x

(***************************************************************************)
(* Further properties of the Transition state machine (checked under       *)
(* Spec).                                                                  *)
(***************************************************************************)
\* C31: update(), pause() and resume() on a Complete transition leave every
\* field as it was (update() returns the cached value), only start() and
\* reset() leave Complete, and Complete is reached only with a finite budget.
C31_CompleteTerminal ==
    /\ (pre.state = "Complete" /\ op \in {"update", "pause", "resume"}) => t = pre
    /\ (pre.state = "Complete" /\ op = "update") => ret = pre.current_value
    /\ (pre.state = "Complete" /\ t.state # "Complete") => op \in {"start", "reset"}
    /\ t.state = "Complete" => t.loop_count.some

C31_Witness ==
    /\ op = "update"
    /\ h.prev_op = "pause"
    /\ pre.state = "Complete"
    /\ t.state = "Complete"
    /\ t.current_loop = 1
    /\ ret = t.current_value

\* C32: the flip of an update() is decided by the loop index after its
\* rollover handling: with reverse, a rollover into an odd index looks up at
\* 1.0 and caches the last keyframe's value, and completing on an odd index
\* looks up at 0.0 and caches the first keyframe's value; completing without
\* reverse or on an even index caches the last keyframe's value.
C32_FlipAfterRollover ==
    OverUpdate =>
        /\ (t.reverse_on_complete /\ t.state = "Running"
               /\ t.current_loop = pre.current_loop + 1 /\ t.current_loop % 2 = 1) =>
              /\ obs.progress = One
              /\ t.current_value = Some(LastValue(t))
        /\ t.state = "Complete" =>
              IF t.reverse_on_complete /\ t.current_loop % 2 = 1
              THEN obs.progress = Zero /\ t.current_value = Some(FirstValue(t))
              ELSE obs.progress = One /\ t.current_value = Some(LastValue(t))

C32_Witness ==
    /\ OverUpdate
    /\ t.reverse_on_complete
    /\ t.loop_count = Some(2)
    /\ t.state = "Complete"
    /\ t.current_loop = 1
    /\ obs.progress = Zero
    /\ t.current_value = Some(FirstValue(t))

\* C33: an update() that observes raw progress >= 1 on a finite budget without
\* completing adds exactly one to the loop index, sets the reference instant to
\* now and starts from progress 0.0 whatever the overshoot, so Complete takes
\* at least as many such updates as the budget.
C33_OneRolloverPerUpdate ==
    /\ (OverUpdate /\ t.loop_count.some /\ t.state # "Complete") =>
          /\ t.current_loop = pre.current_loop + 1
          /\ t.start_time = Some(now)
          /\ obs.progress = Reverse(t, t.current_loop, Zero)
    /\ (t.loop_count.some /\ t.state = "Complete") => h.overs >= t.loop_count.v

\* C35: with a budget of Some(0) the update() that observes elapsed >=
\* duration returns normally and leaves the transition Complete.
C35_ZeroBudgetCompletes ==
    (OverUpdate /\ t.loop_count = Some(0)) => (ret # Panic /\ t.state = "Complete")

\* C36: with a budget of Some(n), n >= 1, the loop index is in 0..n-1 in every
\* state, and no operation but start() and reset() lowers it.
C36_LoopIndexBounds ==
    (t.loop_count.some /\ t.loop_count.v >= 1) =>
        /\ t.current_loop \in 0..(t.loop_count.v - 1)
        /\ op \notin {"start", "reset"} => t.current_loop >= pre.current_loop

C36_Witness ==
    /\ t.loop_count = Some(3)
    /\ OverUpdate
    /\ pre.current_loop = 1
    /\ t.current_loop = 2
    /\ t.state = "Running"

\* C37: an Idle transition has no reference instant, no cached value and
\* loop index 0; a Running, Paused or Complete one has a reference instant;
\* an update() of a Running transition with a keyframe caches and returns a
\* value.
C37_StateFields ==
    /\ t.state = "Idle" =>
          (t.start_time = None /\ t.current_value = None /\ t.current_loop = 0)
    /\ t.state \in {"Running", "Paused", "Complete"} => t.start_time.some
    /\ (op = "update" /\ pre.state = "Running" /\ Len(pre.keyframes) >= 1) =>
          (ret # Panic /\ ret # None /\ t.current_value = ret)

\* C34: for every x in [0, 1] and every easing but Elastic, apply(x) is in
\* [0, 1]: Bounce, like the polynomial easings, never overshoots.
C34_EasingRange ==
    (op = "apply" /\ obs.easing \in InRange /\ FLe(FZero, obs.x) /\ FLe(obs.x, FOne)) =>
        (FLe(FZero, ret) /\ FLe(ret, FOne))

C34_Witness ==
    /\ op = "apply"
    /\ obs.easing = "Bounce"
    /\ obs.x = BounceEdge(Rat(1, 1))
    /\ ret = FOne

(***************************************************************************)
(* AnimationState (animations.rs): a one-shot progress meter driven by the *)
(* caller's millisecond clock.  The clock is `now`; h.first is the time of *)
(* the first update() call.                                                *)
(***************************************************************************)
MaxAnimationTime == 4
MaxAnimationDuration == 3

AnimationEasings == Easings \ {"Elastic"}

\* f32::min: a NaN operand is ignored
MinF32(a, b) ==
    IF IsNaN(a) THEN b ELSE IF IsNaN(b) THEN a ELSE IF RLt(b, a) THEN b ELSE a

\* u64::saturating_sub
SaturatingSub(a, b) == IF a >= b THEN a - b ELSE 0

\* the start time after update(current_time_ms) has looked at it
Started(a, current_time_ms) ==
    IF a.start_time_ms = 0 THEN current_time_ms ELSE a.start_time_ms

AnimationUpdate(a, current_time_ms) ==
    LET start_time_ms == Started(a, current_time_ms)
        elapsed == SaturatingSub(current_time_ms, start_time_ms)
        progress == MinF32(Rat(elapsed, a.duration_ms), One)
    IN  [animation |-> [a EXCEPT !.start_time_ms = start_time_ms],
         ret |-> Apply(a.easing, progress)]

IsComplete(a, current_time_ms) ==
    IF a.start_time_ms = 0 THEN FALSE
    ELSE SaturatingSub(current_time_ms, a.start_time_ms) >= a.duration_ms

InitAnimation ==
    /\ now = 0
    /\ \E d \in 0..MaxAnimationDuration, e \in AnimationEasings :
          animation = AnimationNew(d, e)
    /\ modal = ModalNew
    /\ preset = "fade_in"
    /\ t = FadeIn(MaxDuration)
    /\ pre = AnimationNew(0, "Linear")
    /\ op = "new"
    /\ ret = None
    /\ obs = NoObs
    /\ h = [first |-> None]
    /\ transitions = <<>>
    /\ mh = [op |-> "new"]

AnimationTick ==
    /\ now < MaxAnimationTime
    /\ now' = now + 1
    /\ op' = "tick"
    /\ pre' = animation
    /\ ret' = None
    /\ UNCHANGED <<preset, t, obs, h, transitions, mh, animation, modal>>

DoAnimationUpdate ==
    LET step == AnimationUpdate(animation, now)
    IN  /\ animation' = step.animation
        /\ ret' = step.ret
        /\ op' = "update"
        /\ pre' = animation
        /\ h' = [first |-> IF h.first.some THEN h.first ELSE Some(now)]
        /\ UNCHANGED <<now, preset, t, obs, transitions, mh, modal>>

DoIsComplete ==
    /\ ret' = IsComplete(animation, now)
    /\ op' = "is_complete"
    /\ pre' = animation
    /\ UNCHANGED <<now, preset, t, obs, h, transitions, mh, animation, modal>>

NextAnimation == AnimationTick \/ DoAnimationUpdate \/ DoIsComplete

SpecAnimation == InitAnimation /\ [][NextAnimation]_vars

\* C38: elapsed time runs from the first update() call at t0, whatever t0
\* is: every update(t) from then on returns easing.apply(min((t - t0) /
\* duration, 1)), is_complete(t) holds iff t - t0 >= duration, and
\* is_complete is false before any update.
C38_ElapsedFromFirstUpdate ==
    /\ op = "update" =>
          ret = Apply(animation.easing,
                      MinF32(Rat(now - h.first.v, animation.duration_ms), One))
    /\ op = "is_complete" =>
          ret = (h.first.some /\ now - h.first.v >= animation.duration_ms)

(***************************************************************************)
(* Modal (components/modal.rs): show, hide, update_animation, the          *)
(* Component::update message handler and render_centered.  h.latched holds *)
(* while the modal has been Hidden with no show() since.                   *)
(***************************************************************************)
ModalMessages ==
    {"PrimaryButton", "SecondaryButton", "Dismiss", "HoverPrimary", "HoverSecondary",
     "NoHover"}

\* the length of the appear and disappear animations, in frames
AnimationFrames == 10

\* u8::saturating_add
SaturatingAdd8(a, b) == IF a + b > 255 THEN 255 ELSE a + b

Show(m) == [m EXCEPT !.modal_state = "Appearing", !.animation_frame = 0]

Hide(m) == [m EXCEPT !.modal_state = "Disappearing", !.animation_frame = 0]

UpdateAnimation(m) ==
    LET frame == SaturatingAdd8(m.animation_frame, 1)
    IN  CASE m.modal_state = "Appearing" ->
                 [m EXCEPT !.animation_frame = frame,
                           !.modal_state = IF frame >= AnimationFrames THEN "Visible" ELSE @]
          [] m.modal_state = "Disappearing" ->
                 [m EXCEPT !.animation_frame = frame,
                           !.modal_state = IF frame >= AnimationFrames THEN "Hidden" ELSE @]
          [] OTHER -> m

\* Component::update: the modal after the message and the Action returned
ModalUpdate(m, msg) ==
    CASE msg = "PrimaryButton" -> [modal |-> Hide(m), ret |-> Some("Confirm")]
      [] msg = "SecondaryButton" -> [modal |-> Hide(m), ret |-> Some("Cancel")]
      [] msg = "Dismiss" -> [modal |-> Hide(m), ret |-> Some("Cancel")]
      [] msg = "HoverPrimary" -> [modal |-> [m EXCEPT !.focused_button = "Primary"], ret |-> None]
      [] msg = "HoverSecondary" ->
             [modal |-> [m EXCEPT !.focused_button = "Secondary"], ret |-> None]
      [] msg = "NoHover" -> [modal |-> [m EXCEPT !.focused_button = "Primary"], ret |-> None]

\* the visibility render_centered computes; None when it returns before drawing
Visibility(m) ==
    CASE m.modal_state = "Hidden" -> None
      [] m.modal_state = "Appearing" ->
             Some(MinF32(Rat(m.animation_frame, AnimationFrames), One))
      [] m.modal_state = "Visible" -> Some(One)
      [] m.modal_state = "Disappearing" ->
             LET left == Rat(AnimationFrames - m.animation_frame, AnimationFrames)
             IN  Some(IF RLt(left, Zero) THEN Zero ELSE left)

\* what render_centered draws: nothing, or the backdrop and the dialog box
RenderCentered(m) ==
    LET visibility == Visibility(m)
    IN  IF ~visibility.some THEN [drawn |-> FALSE]
        ELSE [drawn |-> TRUE,
              backdrop |-> IF RLt(Half, visibility.v) THEN "Black" ELSE "Reset",
              focused_button |-> m.focused_button]

Latched(m, shown) == m.modal_state = "Hidden" \/ (h.latched /\ ~shown)

InitModal ==
    /\ now = 0
    /\ modal = ModalNew
    /\ animation = AnimationNew(1, "Linear")
    /\ preset = "fade_in"
    /\ t = FadeIn(MaxDuration)
    /\ pre = ModalNew
    /\ op = "new"
    /\ ret = None
    /\ obs = NoObs
    /\ h = [latched |-> TRUE]
    /\ transitions = <<>>
    /\ mh = [op |-> "new"]

DoShow ==
    /\ modal' = Show(modal)
    /\ op' = "show"
    /\ pre' = modal
    /\ ret' = None
    /\ h' = [latched |-> Latched(modal', TRUE)]
    /\ UNCHANGED <<now, preset, t, obs, transitions, mh, animation>>

DoHide ==
    /\ modal' = Hide(modal)
    /\ op' = "hide"
    /\ pre' = modal
    /\ ret' = None
    /\ h' = [latched |-> Latched(modal', FALSE)]
    /\ UNCHANGED <<now, preset, t, obs, transitions, mh, animation>>

DoUpdateAnimation ==
    /\ modal' = UpdateAnimation(modal)
    /\ op' = "update_animation"
    /\ pre' = modal
    /\ ret' = None
    /\ h' = [latched |-> Latched(modal', FALSE)]
    /\ UNCHANGED <<now, preset, t, obs, transitions, mh, animation>>

DoModalUpdate ==
    \E msg \in ModalMessages :
        LET step == ModalUpdate(modal, msg)
        IN  /\ modal' = step.modal
            /\ ret' = step.ret
            /\ op' = msg
            /\ pre' = modal
            /\ h' = [latched |-> Latched(modal', FALSE)]
            /\ UNCHANGED <<now, preset, t, obs, transitions, mh, animation>>

\* render_centered takes &self: no field is assigned
DoRender ==
    /\ ret' = RenderCentered(modal)
    /\ op' = "render"
    /\ pre' = modal
    /\ UNCHANGED <<now, preset, t, obs, h, transitions, mh, animation, modal>>

NextModal == DoShow \/ DoHide \/ DoUpdateAnimation \/ DoModalUpdate \/ DoRender

SpecModal == InitModal /\ [][NextModal]_vars

\* C39: a Hidden modal stays Hidden, and is not drawn, until show() is
\* called: no update message, hide() or update_animation() moves it to
\* Appearing, Visible or Disappearing.
C39_HiddenUntilShown ==
    h.latched => (modal.modal_state = "Hidden" /\ (op = "render" => ~ret.drawn))

=============================================================================
